---- MODULE Spec2Model ----
(***************************************************************************)
(* The WebSocket side of HyperliquidAPI (src/services/hyperliquid-api.ts): *)
(* the socket held in this.ws, the subscriptions Map, the reconnect        *)
(* counter, and the timers and suspended async calls of the event loop.    *)
(* One action is one event-loop task together with the microtasks it       *)
(* drains: a public call, a socket event, or a timer callback.             *)
(***************************************************************************)
EXTENDS Integers, Sequences, FiniteSets, TLC

\* ---- bounds of the model ----
MaxPending == 3      \* event sources outstanding at once: WebSocket objects not yet closed
                     \* plus pending setTimeout callbacks (reconnect, 100 ms delay, 500 ms retry)
MaxCalls == 2        \* public calls (subscribe*, unsubscribe*, disconnect) made in one run

\* ---- program constants ----
maxReconnectAttempts == 5
reconnectDelay == 1000     \* ms

supportedIntervals ==
  {"1m", "3m", "5m", "15m", "30m", "1h", "2h", "4h", "8h", "12h", "1d", "3d", "1w", "1M"}

\* ---- inputs ----
NoInterval == "-"
\* the subscribe* calls the consumers make: <<<<type, coin, interval>>, callback>>
Calls ==
  { <<<<"l2Book", "BTC", NoInterval>>, "cb1">>,
    <<<<"l2Book", "BTC", NoInterval>>, "cb2">>,
    <<<<"candle", "BTC", "1h">>, "cb1">> }
Requests == { c[1] : c \in Calls }
\* the frames the venue delivers
Messages ==
  { [channel |-> "l2Book", data |-> [coin |-> "BTC", levels |-> "levels", time |-> 1000]],
    [channel |-> "trades", data |-> <<[coin |-> "ETH", tid |-> 1]>>],
    [channel |-> "candle", data |-> [s |-> "BTC", t |-> 100, interval |-> "1h"]],
    [channel |-> "candle", data |-> [s |-> "BTC", t |-> 100]] }
\* a later frame of the same key
LaterMessages ==
  { [channel |-> "l2Book", data |-> [coin |-> "BTC", levels |-> "levels", time |-> 2000]] }
\* event.data of the frames delivered: the JSON text of a message, or text that is no JSON
JSONstringify(m) == [json |-> TRUE, value |-> m]
NotJSON == [json |-> FALSE, text |-> "not json"]
Frames == { JSONstringify(m) : m \in Messages \cup LaterMessages } \cup {NotJSON}
\* consumer callbacks that throw when they are invoked
ThrowingCallbacks == {"cb2"}

VARIABLES
  ws,                 \* this.ws: the index in `sockets` of the socket it refers to, or 0 for null
  sockets,            \* the WebSocket objects not yet closed, oldest first
  subscriptions,      \* this.subscriptions: the Map, in insertion order, of <<key, callback>>
  reconnectAttempts,  \* this.reconnectAttempts
  reconnectTimers,    \* pending setTimeout callbacks of attemptReconnect
  delayQ,             \* subscribe* calls suspended in ensureWebSocketConnection's 100 ms delay
  retryQ,             \* requests waiting in sendSubscription's 500 ms retry
  maxReached,         \* times 'Max reconnection attempts reached' was logged since the last
                      \* Open or explicit connect (0, 1, or 2 for more than once)
  calls,              \* public calls made so far
  ev,                 \* what the task that ran last did (its observable outputs)
  rest,               \* the REST call in progress or last made, and the calls made so far
  trades,             \* the store's trades buffer, newest first
  added,              \* trades handed to the store so far
  store,              \* the other fields of the trading store
  book                \* the OrderBook component: its pending timer and snapshot loads

\* the WebSocket side of the client, without and with the record of the last task
clientVars == <<ws, sockets, subscriptions, reconnectAttempts, reconnectTimers,
                delayQ, retryQ, maxReached, calls>>
apiVars == <<ws, sockets, subscriptions, reconnectAttempts, reconnectTimers,
             delayQ, retryQ, maxReached, calls, ev>>
\* the store and the component that feeds its order book
storeVars == <<trades, added, store, book>>
vars == <<ws, sockets, subscriptions, reconnectAttempts, reconnectTimers,
          delayQ, retryQ, maxReached, calls, ev, rest, trades, added, store, book>>

NoWaiter == [kind |-> "none"]
ReconnectWaiter == [kind |-> "reconnect"]
SubWaiter(req, cb, origin) == [kind |-> "sub", req |-> req, cb |-> cb, origin |-> origin]

\* ---- subscription keys: `${type}:${coin}` and `candle:${coin}:${interval}` ----
\* A key is the sequence of its ':'-separated parts, which is what key.split(':') returns.
KeyOf(req) ==
  IF req[1] = "candle" THEN <<"candle", req[2], req[3]>> ELSE <<req[1], req[2]>>

\* ---- the Map ----
MapKeys(m) == { m[i][1] : i \in 1..Len(m) }
MapHas(m, k) == k \in MapKeys(m)
MapGet(m, k) == LET i == CHOOSE i \in 1..Len(m) : m[i][1] = k IN m[i][2]
MapSet(m, k, cb) ==
  IF MapHas(m, k)
    THEN [i \in 1..Len(m) |-> IF m[i][1] = k THEN <<k, cb>> ELSE m[i]]
    ELSE Append(m, <<k, cb>>)
\* mutant: removal by position, `entries.splice(indexOf(k), 1)`, which drops the
\* last entry when k is absent
MapDelete_splice(m, k) ==
  IF MapHas(m, k) THEN SelectSeq(m, LAMBDA e : e[1] # k)
  ELSE IF m = <<>> THEN m ELSE SubSeq(m, 1, Len(m) - 1)
MapDelete(m, k) == SelectSeq(m, LAMBDA e : e[1] # k)

\* ---- the state a task works on, and its outputs ----
Cur ==
  [ ws |-> ws, sockets |-> sockets,
    subscriptions |-> subscriptions, reconnectAttempts |-> reconnectAttempts,
    reconnectTimers |-> reconnectTimers, delayQ |-> delayQ, retryQ |-> retryQ,
    maxReached |-> maxReached,
    sent |-> <<>>,        \* frames passed to ws.send, as <<socket, frame>>
    completed |-> <<>>,   \* subscribe* calls that returned
    rejected |-> <<>>,    \* subscribe* calls that rejected
    signals |-> 0,        \* 'Max reconnection attempts reached' logged
    notified |-> 0,       \* calls of attemptReconnect()
    scheduled |-> <<>>,   \* delays (ms) of the reconnect timers set
    invoked |-> <<>>,     \* callbacks invoked, as <<callback, argument>>
    threw |-> FALSE,      \* an exception is propagating out of the running handler
    caught |-> 0,         \* errors caught and logged by onmessage's try/catch
    overflow |-> FALSE ]  \* the task needs more than the bounds allow

\* setTimeout callbacks not yet run
PendingTimers(st) == st.reconnectTimers + Len(st.delayQ) + Len(st.retryQ)

\* event sources outstanding: sockets not yet closed and timers not yet run
Outstanding(st) == Len(st.sockets) + PendingTimers(st)

IsOpen(st) == st.ws # 0 /\ st.sockets[st.ws].readyState = "OPEN"

Frame(method, req) ==
  [method |-> method, type |-> req[1], coin |-> req[2], interval |-> req[3]]

\* connectWebSocket(): new WebSocket, stored in this.ws; w awaits the promise
connectWebSocket(st, w) ==
  IF Outstanding(st) >= MaxPending THEN [st EXCEPT !.overflow = TRUE]
  ELSE [st EXCEPT !.sockets = Append(@, [readyState |-> "CONNECTING", waiter |-> w]),
                  !.ws = Len(st.sockets) + 1]

\* mutant: no retry when the socket is not Open
sendSubscription_noRetry(st, req) ==
  IF IsOpen(st)
    THEN [st EXCEPT !.sent = Append(@, <<st.ws, Frame("subscribe", req)>>)]
    ELSE st
\* mutant: the frame is written to whatever socket this.ws holds
sendSubscription_unchecked(st, req) ==
  IF st.ws # 0
    THEN [st EXCEPT !.sent = Append(@, <<st.ws, Frame("subscribe", req)>>)]
    ELSE IF Outstanding(st) >= MaxPending THEN [st EXCEPT !.overflow = TRUE]
    ELSE [st EXCEPT !.retryQ = Append(@, req)]
\* sendSubscription(request)
sendSubscription(st, req) ==
  IF IsOpen(st)
    THEN [st EXCEPT !.sent = Append(@, <<st.ws, Frame("subscribe", req)>>)]
    ELSE IF Outstanding(st) >= MaxPending THEN [st EXCEPT !.overflow = TRUE]
    ELSE [st EXCEPT !.retryQ = Append(@, req)]

\* mutant: a request that cannot be sent is scheduled for another retry
retrySend_again(st, req) ==
  IF IsOpen(st)
    THEN [st EXCEPT !.sent = Append(@, <<st.ws, Frame("subscribe", req)>>)]
    ELSE [st EXCEPT !.retryQ = Append(@, req)]
\* the callback of sendSubscription's setTimeout
retrySend(st, req) ==
  IF IsOpen(st)
    THEN [st EXCEPT !.sent = Append(@, <<st.ws, Frame("subscribe", req)>>)]
    ELSE st

\* mutant: the interval is not validated
subscribeRest_anyInterval(st, w) ==
  LET st1 == [st EXCEPT !.subscriptions = MapSet(@, KeyOf(w.req), w.cb)]
      st2 == sendSubscription(st1, w.req)
  IN [st2 EXCEPT !.completed = Append(@, w)]
\* subscribeTo*(…) after `await this.ensureWebSocketConnection()`
subscribeRest(st, w) ==
  IF w.req[1] = "candle" /\ w.req[3] \notin supportedIntervals
    THEN [st EXCEPT !.completed = Append(@, w)]
    ELSE LET st1 == [st EXCEPT !.subscriptions = MapSet(@, KeyOf(w.req), w.cb)]
             st2 == sendSubscription(st1, w.req)
         IN [st2 EXCEPT !.completed = Append(@, w)]

\* subscribeTo*(…) up to and including its first suspension
subscribeTo(st, w) ==
  IF IsOpen(st) THEN subscribeRest(st, w)
  ELSE connectWebSocket(st, w)

\* mutant: unsubscribeFromCandles builds its key without the interval
unsubscribeFrom_noInterval(st, req) ==
  [st EXCEPT !.subscriptions = MapDelete(@, <<req[1], req[2]>>)]
\* unsubscribeFromCandles / unsubscribeFromTrades / unsubscribeFromOrderBook
unsubscribeFrom(st, req) ==
  [st EXCEPT !.subscriptions = MapDelete(@, KeyOf(req))]

\* the arguments resubscribeAll() passes for a key of the Map
resubscribeRequest(key) ==
  LET type == key[1]
      coin == key[2]
      interval == key[2]     \* const [_, interval] = key.split(':')
  IN IF type = "candle" THEN <<type, coin, interval>> ELSE <<type, coin, NoInterval>>

\* resubscribeAll(): forEach over the Map
RECURSIVE resubscribeFrom(_, _, _)
resubscribeFrom(st, m, i) ==
  IF i > Len(m) THEN st
  ELSE resubscribeFrom(
         subscribeTo(st, SubWaiter(resubscribeRequest(m[i][1]), m[i][2], "resubscribe")),
         m, i + 1)

resubscribeAll(st) == resubscribeFrom(st, st.subscriptions, 1)

\* mutant: `>` for `>=` in the guard
attemptReconnect_offByOne(st) ==
  IF st.reconnectAttempts > maxReconnectAttempts
    THEN [st EXCEPT !.notified = @ + 1,
                    !.signals = @ + 1, !.maxReached = IF @ < 2 THEN @ + 1 ELSE @]
    ELSE IF Outstanding(st) >= MaxPending THEN [st EXCEPT !.overflow = TRUE]
    ELSE [st EXCEPT !.notified = @ + 1,
                    !.reconnectAttempts = @ + 1, !.reconnectTimers = @ + 1,
                    !.scheduled = Append(@, reconnectDelay * (st.reconnectAttempts + 1))]
\* mutant: the attempt is counted but no timer is set for it
attemptReconnect_noTimer(st) ==
  IF st.reconnectAttempts >= maxReconnectAttempts
    THEN [st EXCEPT !.notified = @ + 1,
                    !.signals = @ + 1, !.maxReached = IF @ < 2 THEN @ + 1 ELSE @]
    ELSE [st EXCEPT !.notified = @ + 1, !.reconnectAttempts = @ + 1]
\* mutant: the delay is computed before the counter is incremented
attemptReconnect_delayBefore(st) ==
  IF st.reconnectAttempts >= maxReconnectAttempts
    THEN [st EXCEPT !.notified = @ + 1,
                    !.signals = @ + 1, !.maxReached = IF @ < 2 THEN @ + 1 ELSE @]
    ELSE IF Outstanding(st) >= MaxPending THEN [st EXCEPT !.overflow = TRUE]
    ELSE [st EXCEPT !.notified = @ + 1,
                    !.reconnectAttempts = @ + 1, !.reconnectTimers = @ + 1,
                    !.scheduled = Append(@, reconnectDelay * st.reconnectAttempts)]
\* attemptReconnect()
attemptReconnect(st) ==
  IF st.reconnectAttempts >= maxReconnectAttempts
    THEN [st EXCEPT !.notified = @ + 1,
                    !.signals = @ + 1, !.maxReached = IF @ < 2 THEN @ + 1 ELSE @]
    ELSE IF Outstanding(st) >= MaxPending THEN [st EXCEPT !.overflow = TRUE]
    \* this.reconnectAttempts++, then setTimeout(..., reconnectDelay * reconnectAttempts)
    ELSE [st EXCEPT !.notified = @ + 1,
                    !.reconnectAttempts = @ + 1, !.reconnectTimers = @ + 1,
                    !.scheduled = Append(@, reconnectDelay * (st.reconnectAttempts + 1))]

\* mutant: the attempt counter is left as it is when the connection opens
onopen_noReset(st, w) ==
  LET st1 == [st EXCEPT !.maxReached = 0] IN
  IF w.kind = "reconnect" THEN resubscribeAll(st1)
  ELSE IF Outstanding(st1) >= MaxPending THEN [st1 EXCEPT !.overflow = TRUE]
  ELSE [st1 EXCEPT !.delayQ = Append(@, w)]
\* ws.onopen, and the continuation of `await this.connectWebSocket()` it resumes
onopen(st, w) ==
  LET st1 == [st EXCEPT !.reconnectAttempts = 0, !.maxReached = 0] IN
  IF w.kind = "reconnect" THEN resubscribeAll(st1)
  ELSE IF Outstanding(st1) >= MaxPending THEN [st1 EXCEPT !.overflow = TRUE]
  ELSE [st1 EXCEPT !.delayQ = Append(@, w)]

\* mutant: the error is only logged, the promise is never rejected
onerror_logOnly(st, w) == st
\* mutant: the error handler starts a reconnect as well
onerror_reconnects(st, w) ==
  attemptReconnect(IF w.kind = "sub" THEN [st EXCEPT !.rejected = Append(@, w)] ELSE st)
\* ws.onerror: reject(error), which makes the awaiting subscribe* call reject
onerror(st, w) ==
  IF w.kind = "sub" THEN [st EXCEPT !.rejected = Append(@, w)] ELSE st

\* mutant: the close is only recorded, no reconnect is attempted
onclose_noReconnect(st) == [st EXCEPT !.ws = 0]
\* ws.onclose
onclose(st) == attemptReconnect([st EXCEPT !.ws = 0])

\* mutant: the callback is called again for the same frame
invoke_twice(st, callback, mappedData) ==
  [st EXCEPT !.invoked = Append(Append(@, <<callback, mappedData>>), <<callback, mappedData>>),
             !.threw = callback \in ThrowingCallbacks]
\* callback(mappedData): the call is made, and the callback may throw
invoke(st, callback, mappedData) ==
  [st EXCEPT !.invoked = Append(@, <<callback, mappedData>>),
             !.threw = callback \in ThrowingCallbacks]

\* mutant: the update is stamped with the local clock instead of the payload's time
handleOrderBookUpdate_localTime(st, data) ==
  LET mappedData == [coin |-> data.coin, levels |-> data.levels, time |-> 0]
      key == <<"l2Book", data.coin>>
  IN IF MapHas(st.subscriptions, key)
       THEN invoke(st, MapGet(st.subscriptions, key), mappedData)
       ELSE st
\* handleOrderBookUpdate(data)
handleOrderBookUpdate(st, data) ==
  LET mappedData == [coin |-> data.coin, levels |-> data.levels, time |-> data.time]
      key == <<"l2Book", data.coin>>
  IN IF MapHas(st.subscriptions, key)
       THEN invoke(st, MapGet(st.subscriptions, key), mappedData)
       ELSE st

\* mutant: every trade is delivered on its own, under the key of its own coin
RECURSIVE handleTradeUpdate_perTrade(_, _)
handleTradeUpdate_perTrade(st, data) ==
  IF data = <<>> THEN st
  ELSE LET key == <<"trades", data[1].coin>>
           st1 == IF MapHas(st.subscriptions, key) /\ ~st.threw
                    THEN [st EXCEPT !.invoked = Append(@, <<MapGet(st.subscriptions, key),
                                                           <<data[1]>> >>)]
                    ELSE st
       IN handleTradeUpdate_perTrade(st1, Tail(data))
\* handleTradeUpdate(data)
handleTradeUpdate(st, data) ==
  LET mappedData == [i \in 1..Len(data) |-> [coin |-> data[i].coin, tid |-> data[i].tid]]
      key == <<"trades", IF Len(data) > 0 THEN data[1].coin ELSE "undefined">>
  IN IF MapHas(st.subscriptions, key)
       THEN invoke(st, MapGet(st.subscriptions, key), mappedData)
       ELSE st

\* handleCandleUpdate(data)
handleCandleUpdate(st, data) ==
  LET mappedData == [s |-> data.s, t |-> data.t]
      key == <<"candle", data.s, IF "interval" \in DOMAIN data THEN data.interval ELSE "1m">>
  IN IF MapHas(st.subscriptions, key)
       THEN invoke(st, MapGet(st.subscriptions, key), mappedData)
       ELSE st

\* the symbol a message is about
SymbolOf(m) ==
  IF m.channel = "candle" THEN m.data.s
  ELSE IF m.channel = "trades" THEN m.data[1].coin
  ELSE m.data.coin
\* mutant: the lookup goes by the symbol alone, whatever the channel
handleWebSocketMessage_bySymbol(st, m) ==
  IF m.channel = "subscriptionResponse" THEN st
  ELSE LET hits == { i \in 1..Len(st.subscriptions) : st.subscriptions[i][1][2] = SymbolOf(m) }
       IN IF hits = {} THEN st
          ELSE invoke(st, st.subscriptions[CHOOSE i \in hits : TRUE][2], m.data)
\* handleWebSocketMessage(message)
handleWebSocketMessage(st, m) ==
  IF m.channel = "subscriptionResponse" THEN st
  ELSE IF m.channel = "l2Book" THEN handleOrderBookUpdate(st, m.data)
  ELSE IF m.channel = "trades" THEN handleTradeUpdate(st, m.data)
  ELSE IF m.channel = "candle" THEN handleCandleUpdate(st, m.data)
  ELSE st

\* mutant: the registry is not cleared
disconnect_noClear(st) ==
  IF st.ws # 0
    THEN [st EXCEPT !.sockets[st.ws].readyState = "CLOSING", !.ws = 0]
    ELSE st
\* disconnect()
disconnect(st) ==
  LET st1 == IF st.ws # 0
               THEN [st EXCEPT !.sockets[st.ws].readyState = "CLOSING", !.ws = 0]
               ELSE st
  IN [st1 EXCEPT !.subscriptions = <<>>]

\* JSON.parse(event.data): throws on text that is no JSON
JSONparse(st, raw) == IF raw.json THEN st ELSE [st EXCEPT !.threw = TRUE]
\* mutant: JSON.parse stands before the try block
onmessage_parseOutsideTry(st, raw) ==
  LET st1 == JSONparse(st, raw)
      st2 == IF st1.threw THEN st1 ELSE handleWebSocketMessage(st1, raw.value)
  IN IF st2.threw /\ ~st1.threw THEN [st2 EXCEPT !.threw = FALSE, !.caught = @ + 1] ELSE st2
\* mutant: only JSON.parse stands in the try block
onmessage_dispatchOutsideTry(st, raw) ==
  LET st1 == JSONparse(st, raw)
  IN IF st1.threw THEN [st1 EXCEPT !.threw = FALSE, !.caught = @ + 1]
     ELSE handleWebSocketMessage(st1, raw.value)
\* ws.onmessage: JSON.parse and handleWebSocketMessage inside one try/catch
onmessage(st, raw) ==
  LET st1 == JSONparse(st, raw)
      st2 == IF st1.threw THEN st1 ELSE handleWebSocketMessage(st1, raw.value)
  IN IF st2.threw THEN [st2 EXCEPT !.threw = FALSE, !.caught = @ + 1] ELSE st2

RemoveAt(q, i) == [j \in 1..(Len(q) - 1) |-> IF j < i THEN q[j] ELSE q[j + 1]]

\* store values: null for the object-typed fields and for the string-typed ones
null == [kind |-> "null"]
nullString == "null"
Market(coin) == [kind |-> "market", coin |-> coin]
Markets == { Market("BTC"), Market("ETH") }

\* the state created by the store's initializer; trades is kept in its own variable
InitialStore ==
  [ markets |-> <<>>, selectedMarket |-> null, orderBook |-> null, candles |-> <<>>,
    chartData |-> <<>>, userState |-> null, walletAddress |-> nullString,
    orderBookAggregation |-> "0.1", isLoading |-> FALSE, error |-> nullString ]

\* the OrderBook component before a market is selected: no timer, no snapshot load
NoBook == [timer |-> "none", loads |-> <<>>, selects |-> 0]

\* no REST call made yet
NoRest == [method |-> "-", interval |-> NoInterval, phase |-> "idle", requests |-> 0,
           status |-> 0, failure |-> "none", error |-> [kind |-> "none"], made |-> 0]

PublicOps == {"subscribe", "unsubscribe", "disconnect"}
NoArg == <<>>

CommitApi(st, op, s, arg) ==
  /\ ~st.overflow
  /\ calls' = IF op \in PublicOps THEN calls + 1 ELSE calls
  /\ ws' = st.ws
  /\ sockets' = st.sockets
  /\ subscriptions' = st.subscriptions
  /\ reconnectAttempts' = st.reconnectAttempts
  /\ reconnectTimers' = st.reconnectTimers
  /\ delayQ' = st.delayQ
  /\ retryQ' = st.retryQ
  /\ maxReached' = st.maxReached
  /\ ev' = [op |-> op, sock |-> s, arg |-> arg, sent |-> st.sent,
            completed |-> st.completed, rejected |-> st.rejected,
            signals |-> st.signals, invoked |-> st.invoked,
            threw |-> st.threw, caught |-> st.caught,
            notified |-> st.notified, scheduled |-> st.scheduled,
            pre |-> IF op \in {"unsubscribe", "disconnect"} \/ st.completed # <<>>
                      THEN MapKeys(subscriptions) ELSE {}]

\* a task of the client alone
Commit(st, op, s, arg) ==
  /\ CommitApi(st, op, s, arg)
  /\ UNCHANGED <<rest, storeVars>>

Init ==
  /\ ws = 0
  /\ sockets = <<>>
  /\ subscriptions = <<>>
  /\ reconnectAttempts = 0
  /\ reconnectTimers = 0
  /\ delayQ = <<>>
  /\ retryQ = <<>>
  /\ maxReached = 0
  /\ calls = 0
  /\ ev = [op |-> "init", sock |-> 0, arg |-> NoArg, sent |-> <<>>,
           completed |-> <<>>, rejected |-> <<>>, signals |-> 0, invoked |-> <<>>,
           threw |-> FALSE, caught |-> 0, notified |-> 0, scheduled |-> <<>>, pre |-> {}]
  /\ rest = NoRest
  /\ trades = <<>>
  /\ added = 0
  /\ store = InitialStore
  /\ book = NoBook

\* ---- public calls ----
Subscribe(req, cb) ==
  /\ calls < MaxCalls
  /\ LET st0 == IF IsOpen(Cur) THEN Cur ELSE [Cur EXCEPT !.maxReached = 0]
     IN Commit(subscribeTo(st0, SubWaiter(req, cb, "user")), "subscribe", 0, NoArg)

Unsubscribe(req) ==
  /\ calls < MaxCalls
  /\ Commit(unsubscribeFrom(Cur, req), "unsubscribe", 0, req)

Disconnect ==
  /\ calls < MaxCalls
  /\ Commit(disconnect(Cur), "disconnect", ws, NoArg)

\* ---- socket events ----
\* the connection of socket s is established
OnOpen(s) ==
  /\ s \in 1..Len(sockets)
  /\ sockets[s].readyState = "CONNECTING"
  /\ Commit(onopen([Cur EXCEPT !.sockets[s] = [readyState |-> "OPEN", waiter |-> NoWaiter]],
                   sockets[s].waiter),
            "onopen", s, sockets[s].waiter.kind)

\* socket s is closed: an error event if its connection was never established,
\* then the close event
OnClose(s) ==
  /\ s \in 1..Len(sockets)
  /\ LET st1 == [Cur EXCEPT !.sockets = RemoveAt(@, s),
                            !.ws = IF @ > s THEN @ - 1 ELSE @]
     IN Commit(onclose(onerror(st1, sockets[s].waiter)), "onclose", s, sockets[s].readyState)

\* a socket whose connection was established delivers frame raw; every socket has
\* the same onmessage handler
OnMessage(raw) ==
  /\ \E s \in 1..Len(sockets) :
        \/ sockets[s].readyState = "OPEN"
        \/ sockets[s].readyState = "CLOSING" /\ sockets[s].waiter = NoWaiter
  /\ Commit(onmessage(Cur, raw), "onmessage", 0, raw)

\* ---- timers ----
ReconnectTimer ==
  /\ reconnectTimers > 0
  /\ Commit(connectWebSocket([Cur EXCEPT !.reconnectTimers = @ - 1], ReconnectWaiter),
            "reconnectTimer", 0, NoArg)

DelayTimer ==
  /\ delayQ # <<>>
  /\ Commit(subscribeRest([Cur EXCEPT !.delayQ = Tail(@)], Head(delayQ)), "delayTimer", 0, NoArg)

RetryTimer ==
  /\ retryQ # <<>>
  /\ Commit(retrySend([Cur EXCEPT !.retryQ = Tail(@)], Head(retryQ)), "retryTimer", 0, NoArg)

Next ==
  \/ \E c \in Calls : Subscribe(c[1], c[2])
  \/ \E req \in Requests : Unsubscribe(req)
  \/ Disconnect
  \/ \E s \in 1..MaxPending : OnOpen(s)
  \/ \E s \in 1..MaxPending : OnClose(s)
  \/ ReconnectTimer
  \/ DelayTimer
  \/ RetryTimer

Spec == Init /\ [][Next]_vars

\* the client together with the frames the venue delivers
NextRouter ==
  \/ Next
  \/ \E m \in Messages : OnMessage(JSONstringify(m))

SpecRouter == Init /\ [][NextRouter]_vars

\* a session in which the venue keeps the connections up, with every kind of frame
NextDispatch ==
  \/ \E c \in Calls : Subscribe(c[1], c[2])
  \/ \E req \in Requests : Unsubscribe(req)
  \/ \E s \in 1..MaxPending : OnOpen(s)
  \/ DelayTimer
  \/ RetryTimer
  \/ \E raw \in Frames : OnMessage(raw)

SpecDispatch == Init /\ [][NextDispatch]_vars

\* ---- the trade and candle feeds ----
\* the subscribe* calls of the trades list and of the chart
FeedCalls ==
  { <<<<"trades", "ETH", NoInterval>>, "cb1">>,
    <<<<"trades", "BTC", NoInterval>>, "cb3">>,
    <<<<"candle", "BTC", "1m">>, "cb1">>,
    <<<<"candle", "BTC", "1h">>, "cb3">> }
\* trades frames: the payload is an array of trades, possibly empty or of several coins
TradeFrames ==
  { JSONstringify([channel |-> "trades", data |-> data]) :
      data \in { <<>>,
                 <<[coin |-> "BTC", tid |-> 3]>>,
                 <<[coin |-> "ETH", tid |-> 1], [coin |-> "BTC", tid |-> 2]>> } }
\* A candle frame the venue sends for its subscription to (candle, coin, interval). The
\* payload is a Candle (T, c, h, l, n, o, s, t, v), which has no interval; a payload
\* that carries the interval as data.interval is delivered as well.
CandleFrame(coin, interval, embedded) ==
  [ json |-> TRUE,
    value |-> [channel |-> "candle",
               data |-> IF embedded THEN [s |-> coin, t |-> 100, interval |-> interval]
                        ELSE [s |-> coin, t |-> 100]],
    interval |-> interval ]
CandleFrames ==
  { CandleFrame("BTC", interval, embedded) : interval \in {"1m", "1h"}, embedded \in BOOLEAN }

\* a session of the trades list and the chart in which the venue keeps the connections up
NextFeeds ==
  \/ \E c \in FeedCalls : Subscribe(c[1], c[2])
  \/ \E c \in FeedCalls : Unsubscribe(c[1])
  \/ \E s \in 1..MaxPending : OnOpen(s)
  \/ DelayTimer
  \/ RetryTimer
  \/ \E raw \in TradeFrames \cup CandleFrames : OnMessage(raw)

SpecFeeds == Init /\ [][NextFeeds]_vars
\* ======================= REST methods =======================
MaxRestCalls == 3    \* REST calls made in one run

\* the calls the consumers make: <<method, interval>>
RestCalls ==
  { <<"fetchMarkets", NoInterval>>, <<"fetchOrderBook", NoInterval>>,
    <<"fetchTrades", NoInterval>>, <<"fetchCandles", "1h">>, <<"fetchCandles", "7m">>,
    <<"fetchUserState", NoInterval>> }
\* what the venue answers: the HTTP status, and the body as response.json() or
\* response.text() finds it ("unreadable": the connection fails while the body is read)
Statuses == {200, 404, 500}
Bodies == {"object", "null", "unparseable", "unreadable"}
ok(status) == status \in 200..299

\* fetch*(…) up to its first await
restStart(r, c) ==
  LET r0 == [NoRest EXCEPT !.method = c[1], !.interval = c[2], !.made = r.made + 1]
  IN IF c[1] = "fetchCandles" /\ c[2] \notin supportedIntervals
       THEN [r0 EXCEPT !.phase = "rejected", !.error = [kind |-> "unsupported"]]
       ELSE [r0 EXCEPT !.phase = "fetch", !.requests = 1]

\* mutant: a request that failed in transport is issued again
restFetched_retry(r, failed, status) ==
  IF failed THEN [r EXCEPT !.requests = @ + 1]
  ELSE LET r1 == [r EXCEPT !.status = status]
       IN IF ok(status) THEN [r1 EXCEPT !.phase = "json"]
          ELSE IF r.method = "fetchCandles" THEN [r1 EXCEPT !.phase = "text"]
          ELSE [r1 EXCEPT !.phase = "rejected", !.error = [kind |-> "http", status |-> status]]
\* fetch*(…) resumed after `await fetch(…)`, up to its next await or its end
restFetched(r, failed, status) ==
  IF failed
    THEN [r EXCEPT !.failure = "transport", !.phase = "rejected",
                   !.error = [kind |-> "transport"]]
  ELSE LET r1 == [r EXCEPT !.status = status]
       IN IF ok(status) THEN [r1 EXCEPT !.phase = "json"]
          ELSE IF r.method = "fetchCandles" THEN [r1 EXCEPT !.phase = "text"]
          ELSE [r1 EXCEPT !.phase = "rejected", !.error = [kind |-> "http", status |-> status]]

\* the methods that read a property of the parsed body
ReadsBody == {"fetchMarkets", "fetchOrderBook", "fetchCandles"}
\* fetch*(…) resumed after `await response.json()` or, in fetchCandles on a status that
\* is not ok, after `await response.text()`
restBody(r, body) ==
  IF body = "unreadable" \/ (r.phase = "json" /\ body = "unparseable")
    THEN [r EXCEPT !.failure = body, !.phase = "rejected", !.error = [kind |-> body]]
  ELSE IF r.phase = "text"
    THEN [r EXCEPT !.phase = "rejected", !.error = [kind |-> "http", status |-> r.status]]
  ELSE IF body = "null" /\ r.method \in ReadsBody
    THEN [r EXCEPT !.phase = "rejected", !.error = [kind |-> "TypeError"]]
  ELSE [r EXCEPT !.phase = "resolved"]

RestCall(c) ==
  /\ rest.phase \in {"idle", "resolved", "rejected"}
  /\ rest.made < MaxRestCalls
  /\ rest' = restStart(rest, c)
  /\ UNCHANGED <<apiVars, storeVars>>

\* fetch settles: a transport failure, or a response with a status
RestFetched(failed, status) ==
  /\ rest.phase = "fetch"
  /\ rest' = restFetched(rest, failed, status)
  /\ UNCHANGED <<apiVars, storeVars>>

\* the body has been read
RestBody(body) ==
  /\ rest.phase \in {"json", "text"}
  /\ rest' = restBody(rest, body)
  /\ UNCHANGED <<apiVars, storeVars>>

NextRest ==
  \/ \E c \in RestCalls : RestCall(c)
  \/ \E failed \in BOOLEAN, status \in Statuses : RestFetched(failed, status)
  \/ \E body \in Bodies : RestBody(body)

SpecRest == Init /\ [][NextRest]_vars
\* ---- candle intervals, over the WebSocket and over REST ----
\* the chart's calls: a supported interval and one that is not supported
IntervalCalls ==
  { <<<<"candle", "BTC", "1h">>, "cb1">>,
    <<<<"candle", "BTC", "7m">>, "cb1">> }
CandleRestCalls == { c \in RestCalls : c[1] = "fetchCandles" }

\* the chart subscribing and loading candles in a session in which the venue keeps the
\* connections up
NextIntervals ==
  \/ \E c \in IntervalCalls : Subscribe(c[1], c[2])
  \/ \E s \in 1..MaxPending : OnOpen(s)
  \/ DelayTimer
  \/ RetryTimer
  \/ \E c \in CandleRestCalls : RestCall(c)
  \/ \E failed \in BOOLEAN, status \in Statuses : RestFetched(failed, status)
  \/ \E body \in Bodies : RestBody(body)

SpecIntervals == Init /\ [][NextIntervals]_vars
\* ======================= the trading store =======================
MaxTrades == 102     \* trades handed to addTrade in one run

\* the lists setTrades is called with: none, one trade, 101 trades
TradeSnapshots == { <<>>, <<[tid |-> 0]>>, [i \in 1..101 |-> [tid |-> 1000 + i]] }
\* candles as the venue sends them: t is the openTime, c the close price
CandleTimes == {100, 200, 300, 400}
Candles == [t : CandleTimes, c : {"10", "11"}]
\* the lists setCandles and updateChartData are called with
CandleSnapshots == { <<>>, <<[t |-> 3000, c |-> "11"], [t |-> 1500, c |-> "10"]>> }
MarketLists == { <<>>, <<Market("BTC"), Market("ETH")>> }
OrderBooks == { [coin |-> coin, levels |-> "snapshot", time |-> 500] : coin \in {"BTC", "ETH"} }
UserStates == { [kind |-> "userState", accountValue |-> "1000"] }
WalletAddresses == { "0xabc", nullString }
Aggregations == { "0.1", "1" }
ErrorTexts == { "Failed to load order book", nullString }

\* the whole state object of the store
State == store @@ [trades |-> trades]
\* set(partial): the new state object becomes the store's state
Set(s) ==
  /\ trades' = s.trades
  /\ store' = [f \in DOMAIN store |-> s[f]]

\* state.trades.slice(0, n)
slice(s, n) == SubSeq(s, 1, IF Len(s) < n THEN Len(s) ELSE n)

\* mutant: the slice keeps 100 of the old trades
addTrade_slice100(ts, trade) == <<trade>> \o slice(ts, 100)
\* addTrade(trade): [trade, ...state.trades.slice(0, 99)]
addTrade(ts, trade) == <<trade>> \o slice(ts, 99)

setMarkets(s, markets) == [s EXCEPT !.markets = markets]

\* mutant: the error is cleared along with the market data
setSelectedMarket_clearsError(s, market) ==
  [s EXCEPT !.selectedMarket = market, !.orderBook = null, !.trades = <<>>,
            !.candles = <<>>, !.chartData = <<>>, !.error = nullString]
\* setSelectedMarket(market): the market data of the previous market is dropped
setSelectedMarket(s, market) ==
  [s EXCEPT !.selectedMarket = market, !.orderBook = null, !.trades = <<>>,
            !.candles = <<>>, !.chartData = <<>>]

setOrderBook(s, orderBook) == [s EXCEPT !.orderBook = orderBook]
setTrades(s, ts) == [s EXCEPT !.trades = ts]

\* state.candles.findIndex(c => c.t === t): the first position (from 1), or -1
findIndex(cs, t) ==
  IF \E i \in 1..Len(cs) : cs[i].t = t
    THEN CHOOSE i \in 1..Len(cs) : cs[i].t = t /\ \A j \in 1..(i - 1) : cs[j].t # t
    ELSE -1

\* [...].sort((a, b) => a.t - b.t): ascending by t, equal elements keep their order
RECURSIVE sortByT(_)
sortByT(cs) ==
  IF Len(cs) <= 1 THEN cs
  ELSE LET last == cs[Len(cs)]
           init == sortByT(SubSeq(cs, 1, Len(cs) - 1))
           k == Cardinality({ i \in 1..Len(init) : init[i].t <= last.t })
       IN SubSeq(init, 1, k) \o <<last>> \o SubSeq(init, k + 1, Len(init))

\* mutant: a new candle is pushed at the end, the list is not sorted
addCandle_push(s, candle) ==
  LET existingIndex == findIndex(s.candles, candle.t)
  IN IF existingIndex # -1
       THEN [s EXCEPT !.candles[existingIndex] = candle]
       ELSE [s EXCEPT !.candles = Append(@, candle)]
\* mutant: a candle whose openTime is stored already is ignored
addCandle_keepFirst(s, candle) ==
  LET existingIndex == findIndex(s.candles, candle.t)
  IN IF existingIndex # -1
       THEN s
       ELSE [s EXCEPT !.candles = sortByT(Append(@, candle))]
\* mutant: only the newest candle is replaced, an update of an older one is ignored
addCandle_newestOnly(s, candle) ==
  LET existingIndex == findIndex(s.candles, candle.t)
  IN IF existingIndex # -1
       THEN IF existingIndex = Len(s.candles)
              THEN [s EXCEPT !.candles[existingIndex] = candle] ELSE s
       ELSE [s EXCEPT !.candles = sortByT(Append(@, candle))]
\* addCandle(candle)
addCandle(s, candle) ==
  LET existingIndex == findIndex(s.candles, candle.t)
  IN IF existingIndex # -1
       THEN [s EXCEPT !.candles[existingIndex] = candle]
       ELSE [s EXCEPT !.candles = sortByT(Append(@, candle))]

setCandles(s, cs) == [s EXCEPT !.candles = cs]

\* the numbers whose decimal texts occur as prices, sizes and order counts
MaxDepth == 6
Numbers == 0..(101 + 3 * MaxDepth)
Digits == <<"0", "1", "2", "3", "4", "5", "6", "7", "8", "9">>
\* Number.prototype.toString of a non-negative integer
RECURSIVE toString(_)
toString(n) ==
  IF n < 10 THEN Digits[n + 1] ELSE toString(n \div 10) \o Digits[(n % 10) + 1]
RECURSIVE zeros(_)
zeros(digits) == IF digits = 0 THEN "" ELSE "0" \o zeros(digits - 1)
\* Number.prototype.toFixed(digits) of a non-negative integer
toFixed(n, digits) == toString(n) \o "." \o zeros(digits)
NumberTexts == [n \in Numbers |-> toString(n)]
FixedTexts == [n \in Numbers |-> toFixed(n, 8)]
\* parseFloat of the number texts in use: "104" and "104.00000000" are both 104
parseFloat(text) ==
  IF \E n \in Numbers : text \in {NumberTexts[n], FixedTexts[n]}
    THEN CHOOSE n \in Numbers : text \in {NumberTexts[n], FixedTexts[n]}
    ELSE 0
\* updateChartData(candles): time in seconds, prices as numbers
updateChartData(s, cs) ==
  [s EXCEPT !.chartData =
     [i \in 1..Len(cs) |-> [time |-> cs[i].t \div 1000, close |-> parseFloat(cs[i].c)]]]

setUserState(s, userState) == [s EXCEPT !.userState = userState]
setWalletAddress(s, address) == [s EXCEPT !.walletAddress = address]
setOrderBookAggregation(s, aggregation) == [s EXCEPT !.orderBookAggregation = aggregation]
setLoading(s, loading) == [s EXCEPT !.isLoading = loading]
setError(s, error) == [s EXCEPT !.error = error]
clearError(s) == [s EXCEPT !.error = nullString]

\* ---- the store's actions, called on the store alone ----
\* a trade not seen before reaches the store
AddTrade ==
  /\ added < MaxTrades
  /\ added' = added + 1
  /\ trades' = addTrade(trades, [tid |-> added + 1])
  /\ ev' = [op |-> "addTrade", arg |-> [tid |-> added + 1]]
  /\ UNCHANGED <<clientVars, rest, store, book>>

\* a call of the store action op with argument arg, which leaves state s
StoreCall(op, arg, s) ==
  /\ Set(s)
  /\ ev' = [op |-> op, arg |-> arg]
  /\ UNCHANGED <<clientVars, rest, added, book>>

SetTrades(ts) == StoreCall("setTrades", ts, setTrades(State, ts))
SetSelectedMarket(market) ==
  StoreCall("setSelectedMarket", market, setSelectedMarket(State, market))
AddCandle(candle) == StoreCall("addCandle", candle, addCandle(State, candle))
SetMarkets(markets) == StoreCall("setMarkets", markets, setMarkets(State, markets))
SetOrderBook(orderBook) == StoreCall("setOrderBook", orderBook, setOrderBook(State, orderBook))
SetCandles(cs) == StoreCall("setCandles", cs, setCandles(State, cs))
UpdateChartData(cs) == StoreCall("updateChartData", cs, updateChartData(State, cs))
SetUserState(userState) == StoreCall("setUserState", userState, setUserState(State, userState))
SetWalletAddress(address) ==
  StoreCall("setWalletAddress", address, setWalletAddress(State, address))
SetOrderBookAggregation(aggregation) ==
  StoreCall("setOrderBookAggregation", aggregation,
            setOrderBookAggregation(State, aggregation))
SetLoading(loading) == StoreCall("setLoading", loading, setLoading(State, loading))
SetError(error) == StoreCall("setError", error, setError(State, error))
ClearError == StoreCall("clearError", NoArg, clearError(State))

\* the trades buffer
NextStore ==
  \/ AddTrade
  \/ \E ts \in TradeSnapshots : SetTrades(ts)
  \/ \E market \in Markets \cup {null} : SetSelectedMarket(market)

SpecStore == Init /\ [][NextStore]_vars

\* the candle sequence, built from the empty one by addCandle alone
NextCandles ==
  \/ \E candle \in Candles : AddCandle(candle)
  \/ \E market \in Markets \cup {null} : SetSelectedMarket(market)

SpecCandles == Init /\ [][NextCandles]_vars

\* every setter of the store
NextView ==
  \/ \E markets \in MarketLists : SetMarkets(markets)
  \/ \E market \in Markets \cup {null} : SetSelectedMarket(market)
  \/ \E orderBook \in OrderBooks : SetOrderBook(orderBook)
  \/ \E ts \in { t \in TradeSnapshots : Len(t) <= 1 } : SetTrades(ts)
  \/ \E cs \in CandleSnapshots : SetCandles(cs)
  \/ \E cs \in CandleSnapshots : UpdateChartData(cs)
  \/ \E userState \in UserStates : SetUserState(userState)
  \/ \E address \in WalletAddresses : SetWalletAddress(address)
  \/ \E aggregation \in Aggregations : SetOrderBookAggregation(aggregation)
  \/ \E loading \in BOOLEAN : SetLoading(loading)
  \/ \E error \in ErrorTexts : SetError(error)
  \/ ClearError

SpecView == Init /\ [][NextView]_vars
\* ======================= the OrderBook component =======================
MaxSelects == 2      \* markets the user selects in one run

\* the closure handleOrderBookUpdate that the effect creates for a market: it is
\* identified by the coin of the selectedMarket it captured
BookCallback(coin) == "handleOrderBookUpdate:" \o coin
CapturedMarket(callback) == CHOOSE market \in Markets : BookCallback(market.coin) = callback
BookRequest(coin) == <<"l2Book", coin, NoInterval>>
\* the l2Book frames the venue delivers
BookMessages ==
  { [channel |-> "l2Book", data |-> [coin |-> coin, levels |-> levels, time |-> 1000]] :
      coin \in {"BTC", "ETH"}, levels \in {"levelsA", "levelsB"} }
\* Date.now()
DateNow == 9000

\* mutant: the levels are merged into the view that is stored
OrderBook_handleOrderBookUpdate_merge(s, selectedMarket, data) ==
  IF data.coin = selectedMarket.coin
    THEN IF s.orderBook = null
           THEN setOrderBook(s, [coin |-> data.coin, levels |-> data.levels,
                                 time |-> IF data.time = 0 THEN DateNow ELSE data.time])
           ELSE setOrderBook(s, [s.orderBook EXCEPT !.time = data.time])
    ELSE s
\* handleOrderBookUpdate(data) of the OrderBook component, with the selectedMarket
\* of the render that created it
OrderBook_handleOrderBookUpdate(s, selectedMarket, data) ==
  IF data.levels # "undefined" /\ data.coin = selectedMarket.coin
    THEN setOrderBook(s, [coin |-> data.coin, levels |-> data.levels,
                          time |-> IF data.time = 0 THEN DateNow ELSE data.time])
    ELSE s

\* the consumer callbacks a task invoked, applied to the store in order
RECURSIVE consume(_, _, _)
consume(s, invoked, i) ==
  IF i > Len(invoked) THEN s
  ELSE consume(OrderBook_handleOrderBookUpdate(s, CapturedMarket(invoked[i][1]), invoked[i][2]),
               invoked, i + 1)

\* The user selects another market: setSelectedMarket, and the re-render runs the
\* cleanup of the previous effect (clearTimeout, unsubscribeFromOrderBook) and then the
\* effect for the new market (loadOrderBook starts, the 200 ms timer is set).
SelectMarket(market) ==
  /\ book.selects < MaxSelects
  /\ market # store.selectedMarket
  /\ LET previous == store.selectedMarket
         st == IF previous = null THEN Cur
               ELSE unsubscribeFrom(Cur, BookRequest(previous.coin))
     IN CommitApi(st, "selectMarket", 0, market.coin)
  /\ Set(setLoading(setSelectedMarket(State, market), TRUE))
  /\ book' = [timer |-> market.coin, loads |-> Append(book.loads, market.coin),
              selects |-> book.selects + 1]
  /\ UNCHANGED <<rest, added>>

\* the 200 ms timer: subscribeToOrderBook(selectedMarket.coin, handleOrderBookUpdate)
SubscriptionTimeout ==
  /\ book.timer # "none"
  /\ LET st0 == IF IsOpen(Cur) THEN Cur ELSE [Cur EXCEPT !.maxReached = 0]
     IN CommitApi(subscribeTo(st0, SubWaiter(BookRequest(book.timer),
                                             BookCallback(book.timer), "user")),
                  "subscribe", 0, NoArg)
  /\ book' = [book EXCEPT !.timer = "none"]
  /\ UNCHANGED <<rest, trades, added, store>>

\* fetchOrderBook of loadOrderBook settles: setOrderBook(bookData) or setError, and
\* setLoading(false) in either case
BookLoaded(i, failed) ==
  /\ i \in 1..Len(book.loads)
  /\ LET bookData == [coin |-> book.loads[i], levels |-> "snapshot", time |-> 500]
         s1 == IF failed THEN setError(State, "Failed to load order book")
               ELSE setOrderBook(State, bookData)
     IN Set(setLoading(s1, FALSE))
  /\ book' = [book EXCEPT !.loads = RemoveAt(@, i)]
  /\ ev' = [op |-> "bookLoaded", arg |-> book.loads[i]]
  /\ UNCHANGED <<clientVars, rest, added>>

\* a socket delivers an l2Book frame: onmessage, and the callback it invokes updates
\* the store before the task ends
BookMessage(raw) ==
  /\ \E s \in 1..Len(sockets) : sockets[s].readyState = "OPEN"
  /\ LET st == onmessage(Cur, raw)
     IN /\ CommitApi(st, "onmessage", 0, raw)
        /\ Set(consume(State, st.invoked, 1))
  /\ UNCHANGED <<rest, added, book>>

\* the component with the client, in a session in which the venue keeps the
\* connections up
NextBook ==
  \/ \E market \in Markets : SelectMarket(market)
  \/ SubscriptionTimeout
  \/ \E i \in 1..MaxSelects, failed \in BOOLEAN : BookLoaded(i, failed)
  \/ \E s \in 1..MaxPending : OnOpen(s)
  \/ DelayTimer
  \/ RetryTimer
  \/ \E m \in BookMessages : BookMessage(JSONstringify(m))

SpecBook == Init /\ [][NextBook]_vars
\* ======================= properties =======================
LiveSockets == { i \in 1..Len(sockets) : sockets[i].readyState \in {"CONNECTING", "OPEN"} }
\* the subscribe* arguments a registry key stands for
RequestOfKey(k) == IF k[1] = "candle" THEN <<k[1], k[2], k[3]>> ELSE <<k[1], k[2], NoInterval>>
SubscribeFrames(sock) ==
  { j \in 1..Len(ev.sent) : ev.sent[j][1] = sock /\ ev.sent[j][2].method = "subscribe" }

Supported(req) == req[1] # "candle" \/ req[3] \in supportedIntervals
Registered(w) ==
  MapHas(subscriptions, KeyOf(w.req)) /\ MapGet(subscriptions, KeyOf(w.req)) = w.cb
SentOnOpen(frame) ==
  \E j \in 1..Len(ev.sent) :
     /\ ev.sent[j][2] = frame
     /\ ev.sent[j][1] \in 1..Len(sockets)
     /\ sockets[ev.sent[j][1]].readyState = "OPEN"

\* C1: when a reconnect attempt reaches Open, resubscribeAll transmits on the new
\* connection exactly one subscribe frame per registry key, carrying that key's own
\* type, coin and interval: N registered keys give exactly N frames.
C1_ResubscribeCompleteness ==
  (ev.op = "onopen" /\ ev.arg = "reconnect") =>
     /\ Len(ev.sent) = Len(subscriptions)
     /\ \A i \in 1..Len(subscriptions) :
          Cardinality({ j \in SubscribeFrames(ev.sock) :
             ev.sent[j][2] = Frame("subscribe", RequestOfKey(subscriptions[i][1])) }) = 1

\* C2: in every reachable state at most one WebSocket is Connecting or Open.
C2_SingleConnection == Cardinality(LiveSockets) <= 1

\* C3: a registry entry is removed only by unsubscribe* or disconnect(); close and
\* error events, reconnect scheduling, reconnect attempts and resubscribeAll (the
\* subscribe* calls it issues included) leave the registered keys and their
\* callbacks unchanged.
C3_RegistryOnlyChangedByCalls ==
  [][ /\ (MapKeys(subscriptions) \ MapKeys(subscriptions') # {}
            => ev'.op \in {"unsubscribe", "disconnect"})
      /\ (ev'.op \in {"onclose", "reconnectTimer"} => subscriptions' = subscriptions)
      /\ ((ev'.op = "onopen" /\ ev'.arg = "reconnect") => subscriptions' = subscriptions)
      /\ ((\E j \in 1..Len(ev'.completed) : ev'.completed[j].origin = "resubscribe")
            => subscriptions' = subscriptions) ]_vars

\* C4: once reconnectAttempts has reached maxReconnectAttempts no further reconnect
\* attempt is scheduled, and when the last attempt has failed (no attempt pending, no
\* socket left) 'Max reconnection attempts reached' has been emitted exactly once
\* since the last Open or explicit subscribe* that started a connection.
ReconnectExhausted ==
  reconnectAttempts = maxReconnectAttempts /\ reconnectTimers = 0 /\ sockets = <<>>
C4_TerminalFailureOnce ==
  /\ [][reconnectAttempts = maxReconnectAttempts => reconnectTimers' <= reconnectTimers]_vars
  /\ [](ReconnectExhausted => maxReached = 1)

\* C5: reconnectAttempts is 0 right after every Open, grows by exactly 1 with each
\* scheduled reconnect attempt and by nothing else, and always lies in
\* 0..maxReconnectAttempts.
C5_AttemptCounter ==
  /\ [](reconnectAttempts \in 0..maxReconnectAttempts)
  /\ [][ /\ (ev'.op = "onopen" => reconnectAttempts' = 0)
         /\ (reconnectTimers' > reconnectTimers =>
               /\ reconnectTimers' = reconnectTimers + 1
               /\ reconnectAttempts' = reconnectAttempts + 1)
         /\ (reconnectAttempts' # reconnectAttempts =>
               \/ ev'.op = "onopen" /\ reconnectAttempts' = 0
               \/ /\ reconnectAttempts' = reconnectAttempts + 1
                  /\ reconnectTimers' = reconnectTimers + 1) ]_vars
C5_Witness ==
  ev.op = "onclose" /\ reconnectAttempts = maxReconnectAttempts /\ ev.signals = 1

\* C6 (as claimed): whenever a subscribe* call with a supported interval returns, the
\* registry maps its key to its callback and its subscribe frame has been transmitted
\* on an Open connection.
C6_SubscribeSendsFrame ==
  \A j \in 1..Len(ev.completed) :
     LET w == ev.completed[j] IN
     (w.origin = "user" /\ Supported(w.req)) =>
        Registered(w) /\ SentOnOpen(Frame("subscribe", w.req))

\* C6 (amended): whenever a subscribe* call with a supported interval returns, the
\* registry maps its key to its callback, and its subscribe frame has been transmitted
\* on the Open connection held in this.ws or, when this.ws is not Open at that moment,
\* is waiting for sendSubscription's single retry.
C6_SubscribeSendsOrRetries ==
  \A j \in 1..Len(ev.completed) :
     LET w == ev.completed[j] IN
     (w.origin = "user" /\ Supported(w.req)) =>
        /\ Registered(w)
        /\ \/ IsOpen(Cur) /\ SentOnOpen(Frame("subscribe", w.req))
           \/ /\ ~IsOpen(Cur)
              /\ ev.sent = <<>>
              /\ retryQ # <<>>
              /\ retryQ[Len(retryQ)] = w.req
C6_Witness ==
  /\ ev.op = "delayTimer"
  /\ ev.completed # <<>>
  /\ ev.completed[1].origin = "user"
  /\ Supported(ev.completed[1].req)
  /\ ~IsOpen(Cur)

\* C7: every unsubscribe* call (here: one made while this.ws is Open) transmits an
\* unsubscribe frame {method: 'unsubscribe', subscription: {type, coin, interval?}}
\* for its key.
C7_UnsubscribeSendsFrame ==
  (ev.op = "unsubscribe" /\ IsOpen(Cur)) =>
     \E j \in 1..Len(ev.sent) : ev.sent[j] = <<ws, Frame("unsubscribe", ev.arg)>>

\* the registry key an inbound frame is for
HasMessageKey(m) == m.channel # "candle" \/ "interval" \in DOMAIN m.data
MessageKey(m) ==
  IF m.channel = "candle" THEN <<"candle", m.data.s, m.data.interval>>
  ELSE IF m.channel = "trades" THEN <<"trades", m.data[1].coin>>
  ELSE <<m.channel, m.data.coin>>

C9_UnsubscribeAbsentIsNoOp ==
  [][ (ev'.op = "unsubscribe" /\ ~MapHas(subscriptions, KeyOf(ev'.arg))) =>
        UNCHANGED <<subscriptions, ws, sockets, reconnectAttempts, reconnectTimers,
                    delayQ, retryQ>> ]_vars
C9_Witness ==
  /\ ev.op = "unsubscribe"
  /\ KeyOf(ev.arg) \notin ev.pre
  /\ subscriptions # <<>>
  /\ IsOpen(Cur)

\* C10: when disconnect() returns the registry is empty, this.ws is null, and the
\* socket this.ws referred to has been asked to close.
C10_DisconnectClears ==
  ev.op = "disconnect" =>
     /\ subscriptions = <<>>
     /\ ws = 0
     /\ (ev.sock # 0 => sockets[ev.sock].readyState = "CLOSING")
C10_Witness ==
  ev.op = "disconnect" /\ ev.sock # 0 /\ ev.pre # {}

\* the subscribe* calls of the consumers that return in the task
UserCompleted == { j \in 1..Len(ev'.completed) :
                     ev'.completed[j].origin = "user" /\ Supported(ev'.completed[j].req) }
\* the keys subscribed and not yet unsubscribed after a task: disconnect() empties them,
\* unsubscribe* takes its key out, a returning subscribe* call puts its key in
KeysAfterTask ==
  ( IF ev'.op = "disconnect" THEN {}
    ELSE IF ev'.op = "unsubscribe" THEN MapKeys(subscriptions) \ {KeyOf(ev'.arg)}
    ELSE MapKeys(subscriptions) )
  \cup { KeyOf(ev'.completed[j].req) : j \in UserCompleted }

\* C11: the registry has exactly one entry per key, so subscribing twice with the same
\* key leaves one entry; the entries are exactly the distinct keys subscribed and not
\* yet unsubscribed, and each is bound to the callback of the subscribe* call that
\* registered last: it changes only when a subscribe* call for its key returns, and then
\* to that call's callback.
C11_RegistryIdempotence ==
  /\ [](Len(subscriptions) = Cardinality(MapKeys(subscriptions)))
  /\ [][ /\ MapKeys(subscriptions') = KeysAfterTask
         /\ \A j \in UserCompleted :
              MapGet(subscriptions', KeyOf(ev'.completed[j].req)) = ev'.completed[j].cb
         /\ \A i \in 1..Len(subscriptions) :
              ( /\ MapHas(subscriptions', subscriptions[i][1])
                /\ \A j \in UserCompleted :
                     KeyOf(ev'.completed[j].req) # subscriptions[i][1] )
                 => MapGet(subscriptions', subscriptions[i][1]) = subscriptions[i][2] ]_vars

\* the task handled a frame that parses to a message of channel ch
Handled(ch) == ev.op = "onmessage" /\ ev.arg.json /\ ev.arg.value.channel = ch

\* C12: an inbound l2Book frame whose coin has a registered l2Book key invokes that
\* key's callback exactly once, with the payload's coin, levels and time.
C12_OrderBookDelivery ==
  (Handled("l2Book") /\ MapHas(subscriptions, <<"l2Book", ev.arg.value.data.coin>>)) =>
     ev.invoked =
       << << MapGet(subscriptions, <<"l2Book", ev.arg.value.data.coin>>),
             [coin |-> ev.arg.value.data.coin,
              levels |-> ev.arg.value.data.levels,
              time |-> ev.arg.value.data.time] >> >>
C12_Witness ==
  /\ Handled("l2Book")
  /\ MapHas(subscriptions, <<"l2Book", ev.arg.value.data.coin>>)
  /\ Len(subscriptions) = 2
  /\ Len(ev.invoked) = 1

\* the registry keys of a channel and symbol
KeysFor(ch, sym) == { k \in MapKeys(subscriptions) : k[1] = ch /\ k[2] = sym }

\* C13: a frame is delivered only to a callback registered under a key of the frame's
\* own channel and symbol; a frame of another channel for a registered symbol, or for a
\* symbol with no entry, invokes no callback and raises no error.
C13_ChannelIsolation ==
  (ev.op = "onmessage" /\ ev.arg.json) =>
     LET m == ev.arg.value
         own == KeysFor(m.channel, SymbolOf(m))
     IN /\ \A i \in 1..Len(ev.invoked) :
             \E k \in own : ev.invoked[i][1] = MapGet(subscriptions, k)
        /\ own = {} => (ev.invoked = <<>> /\ ev.caught = 0 /\ ~ev.threw)
C13_Witness ==
  /\ Handled("l2Book")
  /\ KeysFor("l2Book", SymbolOf(ev.arg.value)) = {}
  /\ KeysFor("candle", SymbolOf(ev.arg.value)) # {}
  /\ ev.invoked = <<>>

\* the connection state, the registry, the reconnect counter and the pending timers
clientState == <<ws, sockets, subscriptions, reconnectAttempts, reconnectTimers, delayQ, retryQ>>

\* C14: a frame that is not JSON throws nothing out of the message handler, invokes no
\* callback and leaves the connection state, the registry and the reconnect counter
\* unchanged.
C14_MalformedFrame ==
  [][ (ev'.op = "onmessage" /\ ~ev'.arg.json) =>
        /\ ~ev'.threw
        /\ ev'.invoked = <<>>
        /\ UNCHANGED clientState ]_vars
C14_Witness ==
  /\ ev.op = "onmessage"
  /\ ~ev.arg.json
  /\ ev.caught = 1
  /\ subscriptions # <<>>
  /\ IsOpen(Cur)

\* the task handled a frame whose callback threw
CallbackThrew(e) ==
  e.op = "onmessage" /\ e.invoked # <<>> /\ e.invoked[Len(e.invoked)][1] \in ThrowingCallbacks

\* C15: when the callback invoked for a frame throws, nothing propagates out of the
\* message handler and the connection and the registry are unchanged; the next frame,
\* for a different registered key, is still delivered to that key's callback.
C15_CallbackIsolation ==
  [][ /\ CallbackThrew(ev') => (~ev'.threw /\ UNCHANGED clientState)
      /\ ( /\ CallbackThrew(ev)
           /\ ev'.op = "onmessage" /\ ev'.arg.json
           /\ HasMessageKey(ev'.arg.value)
           /\ MapHas(subscriptions, MessageKey(ev'.arg.value))
           /\ MessageKey(ev'.arg.value) # MessageKey(ev.arg.value) ) =>
            /\ Len(ev'.invoked) = 1
            /\ ev'.invoked[1][1] = MapGet(subscriptions, MessageKey(ev'.arg.value)) ]_vars
\* a callback has thrown and was caught while another key has a callback of its own
C15_Witness ==
  /\ CallbackThrew(ev)
  /\ ev.caught = 1
  /\ \E k \in MapKeys(subscriptions) :
        k # MessageKey(ev.arg.value) /\ MapGet(subscriptions, k) \notin ThrowingCallbacks

\* what identifies a frame in the argument its callback receives
Stamp(ch, data) ==
  IF ch = "l2Book" THEN <<data.coin, data.time>>
  ELSE IF ch = "candle" THEN <<data.s, data.t>>
  ELSE <<data[1].coin, data[1].tid>>

\* C16: the router hands each frame of a registered key to that key's callback in the
\* task in which the frame arrives, once, and no other task invokes a callback: the
\* callback sees its key's frames in their order of arrival, none twice, none later.
C16_DeliveryOrder ==
  /\ ev.op # "onmessage" => ev.invoked = <<>>
  /\ (ev.op = "onmessage" /\ ev.arg.json) =>
        LET m == ev.arg.value IN
        /\ Len(ev.invoked) <= 1
        /\ \A i \in 1..Len(ev.invoked) : Stamp(m.channel, ev.invoked[i][2]) = Stamp(m.channel, m.data)
        /\ (HasMessageKey(m) /\ MapHas(subscriptions, MessageKey(m))) => Len(ev.invoked) = 1
C16_Witness ==
  /\ Handled("l2Book")
  /\ ev.arg.value \in LaterMessages
  /\ Len(ev.invoked) = 1
  /\ Stamp("l2Book", ev.invoked[1][2]) = Stamp("l2Book", ev.arg.value.data)

\* socket s, made for a subscribe* call that still awaits it, fails before its
\* connection is established
FailsBeforeOpen(s) ==
  /\ s \in 1..Len(sockets)
  /\ sockets[s].readyState # "OPEN"
  /\ sockets[s].waiter.kind = "sub"
  /\ ev'.op = "onclose" /\ ev'.sock = s

\* C17: when the connection attempt made for a subscribe* call fails before Open, the
\* call rejects, the registry gets no entry from it and no frame is sent.
C17_FailedConnectRejects ==
  [][ \A s \in 1..MaxPending :
        FailsBeforeOpen(s) =>
          /\ ev'.rejected = <<sockets[s].waiter>>
          /\ ev'.completed = <<>>
          /\ subscriptions' = subscriptions
          /\ ev'.sent = <<>> ]_vars
C17_Witness ==
  /\ ev.op = "onclose"
  /\ ev.rejected # <<>>
  /\ ev.rejected[1].origin = "user"
  /\ ~MapHas(subscriptions, KeyOf(ev.rejected[1].req))

\* C18 (as claimed): a transport error reaches a caller only as the terminal failure,
\* after the reconnect attempts are exhausted, never earlier.
C18_OnlyTerminalSurfaced ==
  (\E j \in 1..Len(ev.rejected) : ev.rejected[j].origin = "user") =>
     reconnectAttempts = maxReconnectAttempts /\ ev.signals > 0

\* C18 (amended): every close is handled by the reconnection logic, which schedules one
\* reconnect attempt while the counter is below maxReconnectAttempts and reports the
\* terminal failure only when it has reached it; the only transport error that reaches
\* a caller is the rejection of the subscribe* call whose own connection attempt failed
\* before Open.
C18_TransportErrorsHandled ==
  /\ [](ev.signals > 0 => (ev.op = "onclose" /\ reconnectAttempts = maxReconnectAttempts))
  /\ [][ /\ ev'.op = "onclose" =>
              \/ /\ reconnectAttempts < maxReconnectAttempts
                 /\ reconnectTimers' = reconnectTimers + 1
                 /\ ev'.signals = 0
              \/ /\ reconnectAttempts = maxReconnectAttempts
                 /\ reconnectTimers' = reconnectTimers
                 /\ ev'.signals = 1
         /\ ev'.rejected # <<>> =>
              \E s \in 1..MaxPending :
                 FailsBeforeOpen(s) /\ ev'.rejected = <<sockets[s].waiter>> ]_vars
\* an established connection has closed unexpectedly: nothing is rejected, a reconnect
\* attempt is pending
C18_Witness ==
  /\ ev.op = "onclose"
  /\ ev.arg = "OPEN"
  /\ ev.rejected = <<>>
  /\ ev.signals = 0
  /\ reconnectTimers > 0
  /\ subscriptions # <<>>

\* C19: every call of a REST method (fetchCandles with a supported interval) issues
\* exactly one HTTP request; on a status that is not 2xx it fails with an error
\* carrying that status, on a transport failure or an unparseable body it fails with
\* that error, and in neither case is a second request issued.
RestSupported == rest.method # "fetchCandles" \/ rest.interval \in supportedIntervals
C19_OneRequestNoRetry ==
  (rest.phase # "idle" /\ RestSupported) =>
     /\ rest.requests = 1
     /\ rest.failure # "none" =>
          (rest.phase = "rejected" /\ rest.error = [kind |-> rest.failure])
     /\ (rest.status # 0 /\ ~ok(rest.status) /\ rest.failure = "none") =>
          \/ rest.phase = "text"
          \/ rest.phase = "rejected" /\ rest.error = [kind |-> "http", status |-> rest.status]
     /\ rest.phase = "resolved" => (ok(rest.status) /\ rest.failure = "none")
C19_Witness ==
  /\ rest.phase = "rejected"
  /\ rest.method = "fetchCandles"
  /\ rest.error = [kind |-> "http", status |-> 500]
  /\ rest.requests = 1
  /\ rest.made = 2

\* C20: addTrade(t) on a buffer B leaves t followed by the first 99 trades of B in their
\* order: the newest trade is first, a full buffer of 100 loses exactly its last trade,
\* and 101 insertions in a row leave 100.
C20_AddTradeCap ==
  [][ added' = added + 1 =>
        /\ trades'[1] = [tid |-> added']
        /\ Len(trades') = IF Len(trades) < 100 THEN Len(trades) + 1 ELSE 100
        /\ \A i \in 2..Len(trades') : trades'[i] = trades[i - 1] ]_vars
\* 101 insertions in a row: 100 trades are left, the first one inserted is gone
C20_Witness ==
  /\ added = 101
  /\ Len(trades) = 100
  /\ trades[1].tid = 101
  /\ trades[100].tid = 2


\* C21: whatever store actions have been applied (addTrade, setTrades,
\* setSelectedMarket), the trades buffer holds at most 100 trades.
C21_TradeBufferCap == Len(trades) <= 100

\* the openTimes of the stored candles, in their order
OpenTimes == [i \in 1..Len(store.candles) |-> store.candles[i].t]

\* C22: the candle sequence built by addCandle calls from the empty sequence, in any
\* delivery order, is strictly ascending by openTime: sorted, no openTime twice.
C22_CandlesAscending ==
  \A i \in 1..(Len(store.candles) - 1) : store.candles[i].t < store.candles[i + 1].t
\* the candle of openTime 200 was delivered after those of 100 and 300
C22_Witness ==
  /\ ev.op = "addCandle"
  /\ ev.arg.t = 200
  /\ OpenTimes = <<100, 200, 300>>

\* C23: addCandle(c) with c's openTime stored already replaces that entry with c at its
\* index and changes neither the length nor another entry; with a new openTime the
\* sequence becomes one longer.
C23_AddCandleReplaces ==
  [][ ev'.op = "addCandle" =>
        LET c == ev'.arg
            old == store.candles
            new == store'.candles
            at == { i \in 1..Len(old) : old[i].t = c.t }
        IN IF at # {}
             THEN /\ Len(new) = Len(old)
                  /\ \A i \in at : new[i] = c
                  /\ \A i \in (1..Len(old)) \ at : new[i] = old[i]
             ELSE Len(new) = Len(old) + 1 ]_vars
\* the candle of openTime 200, between those of 100 and 300, has been replaced by one
\* with another close price
C23_Witness ==
  /\ ev.op = "addCandle"
  /\ ev.arg = [t |-> 200, c |-> "11"]
  /\ store.candles = <<[t |-> 100, c |-> "10"], [t |-> 200, c |-> "11"], [t |-> 300, c |-> "10"]>>


\* C24: once a candle with a newer openTime is stored, no addCandle call changes the
\* entry with the older openTime.
C24_SupersededImmutable ==
  [][ ev'.op = "addCandle" =>
        \A i \in 1..Len(store.candles) :
           (\E j \in 1..Len(store.candles) : store.candles[j].t > store.candles[i].t)
             => \E k \in 1..Len(store'.candles) : store'.candles[k] = store.candles[i] ]_vars
\* C24, amended: addCandle(c) changes no entry whose openTime differs from c's, and the
\* entry of c's openTime is c afterwards, also when a newer openTime is stored.
C24_OnlySameOpenTimeReplaced ==
  [][ ev'.op = "addCandle" =>
        /\ \A i \in 1..Len(store.candles) :
              store.candles[i].t # ev'.arg.t
                => \E k \in 1..Len(store'.candles) : store'.candles[k] = store.candles[i]
        /\ \A k \in 1..Len(store'.candles) :
              store'.candles[k].t = ev'.arg.t => store'.candles[k] = ev'.arg
        /\ \E k \in 1..Len(store'.candles) : store'.candles[k] = ev'.arg ]_vars
\* the candle of openTime 100 was replaced after the one of openTime 200 had been stored
C24_Witness ==
  /\ ev.op = "addCandle"
  /\ ev.arg = [t |-> 100, c |-> "11"]
  /\ store.candles = <<[t |-> 100, c |-> "11"], [t |-> 200, c |-> "10"]>>

\* C25: setSelectedMarket(m) sets selectedMarket to m, resets orderBook to null and
\* trades, candles and chartData to empty, and leaves markets, userState,
\* walletAddress, orderBookAggregation, isLoading and error as they were.
C25_SetSelectedMarketFrame ==
  [][ ev'.op = "setSelectedMarket" =>
        /\ store'.selectedMarket = ev'.arg
        /\ store'.orderBook = null
        /\ trades' = <<>>
        /\ store'.candles = <<>>
        /\ store'.chartData = <<>>
        /\ store'.markets = store.markets
        /\ store'.userState = store.userState
        /\ store'.walletAddress = store.walletAddress
        /\ store'.orderBookAggregation = store.orderBookAggregation
        /\ store'.isLoading = store.isLoading
        /\ store'.error = store.error ]_vars
\* a market has been selected while every field that is kept has a value of its own
C25_Witness ==
  /\ ev.op = "setSelectedMarket"
  /\ ev.arg = Market("ETH")
  /\ store.selectedMarket = Market("ETH")
  /\ store.orderBook = null
  /\ store.markets # <<>>
  /\ store.userState # null
  /\ store.walletAddress = "0xabc"
  /\ store.orderBookAggregation = "1"
  /\ store.isLoading
  /\ store.error = "Failed to load order book"


\* C26: an order-book message delivered to the consumer for the selected market
\* replaces the stored view with the message's coin, levels and time, whatever was
\* stored; a message for another coin leaves the stored view as it was.
C26_OrderBookReplacedWholesale ==
  [][ (ev'.op = "onmessage" /\ ev'.invoked # <<>>) =>
        LET data == ev'.invoked[1][2]
        IN IF store.selectedMarket # null /\ data.coin = store.selectedMarket.coin
             THEN store'.orderBook = [coin |-> data.coin, levels |-> data.levels,
                                      time |-> data.time]
             ELSE store'.orderBook = store.orderBook ]_vars


\* the connection of socket s had been established
WasOpen(s) ==
  \/ sockets[s].readyState = "OPEN"
  \/ sockets[s].readyState = "CLOSING" /\ sockets[s].waiter = NoWaiter

\* C27: the close of a socket runs attemptReconnect exactly once, also when the socket
\* reports an error event and a close event for the same failure, and nothing else
\* runs it.
C27_CloseNotifiesOnce ==
  [][ ev'.notified = IF ev'.op = "onclose" THEN 1 ELSE 0 ]_vars
\* a connecting socket failed: its error event rejected the waiting call, its close
\* event started one reconnect
C27_Witness ==
  /\ ev.op = "onclose"
  /\ ev.arg = "CONNECTING"
  /\ ev.rejected # <<>>
  /\ ev.notified = 1
  /\ ev.scheduled # <<>>

\* C28: when a socket whose connection had been established is closed, exactly one
\* reconnect attempt is scheduled, the counter goes from 0 to 1 and the delay is
\* 1 x reconnectDelay.
C28_FirstAttemptAfterOpen ==
  [][ (ev'.op = "onclose" /\ WasOpen(ev'.sock)) =>
        /\ reconnectAttempts = 0
        /\ reconnectAttempts' = 1
        /\ reconnectTimers' = reconnectTimers + 1
        /\ ev'.scheduled = <<1 * reconnectDelay>> ]_vars

\* C29: the timer of reconnect attempt n is set to reconnectDelay x n: longer than the
\* one of the attempt before it, and never more than reconnectDelay x maxReconnectAttempts.
C29_LinearBackoff ==
  [][ ev'.scheduled # <<>> =>
        /\ Len(ev'.scheduled) = 1
        /\ reconnectAttempts' = reconnectAttempts + 1
        /\ ev'.scheduled[1] = reconnectDelay * reconnectAttempts'
        /\ ev'.scheduled[1] > reconnectDelay * reconnectAttempts
        /\ ev'.scheduled[1] <= reconnectDelay * maxReconnectAttempts
        /\ ev'.scheduled[1] <= 5000 ]_vars
\* the fifth attempt in a row has been scheduled, 5000 ms ahead
C29_Witness ==
  /\ ev.op = "onclose"
  /\ reconnectAttempts = maxReconnectAttempts
  /\ ev.scheduled = <<5000>>

\* C30: a frame is written only to a socket that is Open; this.ws is null after a close
\* event and never refers to a socket that is closing.
C30_SendOnlyWhenOpen ==
  /\ [](ws # 0 => sockets[ws].readyState \in {"CONNECTING", "OPEN"})
  /\ [][ /\ \A j \in 1..Len(ev'.sent) :
              /\ ev'.sent[j][1] \in 1..Len(sockets')
              /\ sockets'[ev'.sent[j][1]].readyState = "OPEN"
         /\ ev'.op = "onclose" => ws' = 0 ]_vars
\* a subscribe call resumed while this.ws was a socket still connecting: no frame was
\* written, the request waits for the retry
C30_Witness ==
  /\ ev.op = "delayTimer"
  /\ ev.completed # <<>>
  /\ ev.sent = <<>>
  /\ ws # 0
  /\ sockets[ws].readyState = "CONNECTING"
  /\ retryQ # <<>>


\* the subscribe* calls that returned in the step and handed a request to sendSubscription
HandedToSend == { j \in 1..Len(ev'.completed) : Supported(ev'.completed[j].req) }

\* C31: a request handed to sendSubscription is written at once if this.ws is Open and
\* is otherwise scheduled for one retry; the retry writes it if this.ws is Open then and
\* drops it if not, schedules nothing more, and no call rejects or throws.
C31_SendAtMostOnce ==
  [][ IF ev'.op = "retryTimer"
        THEN /\ retryQ' = Tail(retryQ)
             /\ ev'.sent = IF IsOpen(Cur) THEN << <<ws, Frame("subscribe", Head(retryQ))>> >>
                           ELSE <<>>
             /\ reconnectTimers' = reconnectTimers /\ delayQ' = delayQ
             /\ ev'.rejected = <<>> /\ ~ev'.threw
        ELSE /\ Len(ev'.sent) + (Len(retryQ') - Len(retryQ)) = Cardinality(HandedToSend)
             /\ IF ws' # 0 /\ sockets'[ws'].readyState = "OPEN"
                  THEN retryQ' = retryQ
                  ELSE ev'.sent = <<>>
             /\ HandedToSend # {} => ~ev'.threw ]_vars
\* the retry found this.ws not Open: the frame was dropped and nothing is scheduled
C31_Witness ==
  /\ ev.op = "retryTimer"
  /\ ev.sent = <<>>
  /\ retryQ = <<>>
  /\ ~IsOpen(Cur)
  /\ subscriptions # <<>>


\* the payload of the frame delivered in the step
FrameData == ev'.arg.value.data

\* C32: a trades frame is looked up under the coin of the first trade of its array and
\* the whole array, in order, is passed in one invocation to the callback registered
\* under that key; no other callback is invoked, and an empty array invokes none.
C32_TradesRouting ==
  [][ (ev'.op = "onmessage" /\ ev'.arg.value.channel = "trades") =>
        IF FrameData = <<>> THEN ev'.invoked = <<>>
        ELSE LET key == <<"trades", FrameData[1].coin>>
             IN IF MapHas(subscriptions, key)
                  THEN ev'.invoked = << <<MapGet(subscriptions, key), FrameData>> >>
                  ELSE ev'.invoked = <<>> ]_vars
\* an array of an ETH trade followed by a BTC trade went whole to the ETH callback,
\* while a callback for BTC trades is registered too
C32_Witness ==
  /\ ev.op = "onmessage"
  /\ ev.arg.value.channel = "trades"
  /\ ev.invoked = << <<"cb1", <<[coin |-> "ETH", tid |-> 1], [coin |-> "BTC", tid |-> 2]>> >> >>
  /\ MapHas(subscriptions, <<"trades", "BTC">>)
  /\ MapGet(subscriptions, <<"trades", "BTC">>) = "cb3"

\* C33: a candle frame for symbol S and interval I is delivered to the callback
\* registered under (candle, S, I) and to no callback registered under another interval.
C33_CandleRouting ==
  [][ (ev'.op = "onmessage" /\ ev'.arg.value.channel = "candle") =>
        LET key == <<"candle", FrameData.s, ev'.arg.interval>>
        IN /\ MapHas(subscriptions, key) =>
                /\ Len(ev'.invoked) = 1
                /\ ev'.invoked[1][1] = MapGet(subscriptions, key)
           /\ ~MapHas(subscriptions, key) => ev'.invoked = <<>> ]_vars


\* C34: after the terminal failure (counter at maxReconnectAttempts, no timer pending,
\* no socket) a subscribe* call starts a new connection; when a connection opens the
\* counter is reset to 0, and the close of a connection with the counter at 0 schedules
\* reconnect attempt 1 again.
C34_RestartAfterTerminal ==
  [][ /\ (ev'.op = "subscribe" /\ ReconnectExhausted) =>
            /\ Len(sockets') = 1
            /\ sockets'[1].readyState = "CONNECTING"
            /\ ws' = 1
            /\ ev'.rejected = <<>>
      /\ ev'.op = "onopen" => reconnectAttempts' = 0
      /\ (ev'.op = "onclose" /\ reconnectAttempts = 0) =>
            /\ reconnectAttempts' = 1
            /\ reconnectTimers' = reconnectTimers + 1
            /\ ev'.scheduled = <<reconnectDelay>> ]_vars
\* a subscribe call made after the fifth attempt failed has created a socket
C34_Witness ==
  /\ ev.op = "subscribe"
  /\ reconnectAttempts = maxReconnectAttempts
  /\ reconnectTimers = 0
  /\ Len(sockets) = 1
  /\ sockets[1].readyState = "CONNECTING"
  /\ sockets[1].waiter.kind = "sub"
  /\ ws = 1


\* C35: every candle key of the registry has an interval of the supported set;
\* subscribeToCandles with another interval leaves the registry as it was and sends
\* and schedules no frame; fetchCandles with another interval fails with an error
\* and issues no HTTP request.
C35_SupportedIntervalsOnly ==
  /\ [](\A i \in 1..Len(subscriptions) :
          subscriptions[i][1][1] = "candle" => subscriptions[i][1][3] \in supportedIntervals)
  /\ []((rest.method = "fetchCandles" /\ rest.interval \notin supportedIntervals) =>
          /\ rest.phase = "rejected"
          /\ rest.error = [kind |-> "unsupported"]
          /\ rest.requests = 0)
  /\ [][ (ev'.completed # <<>> /\
          \A j \in 1..Len(ev'.completed) : ~Supported(ev'.completed[j].req)) =>
            /\ subscriptions' = subscriptions
            /\ ev'.sent = <<>>
            /\ retryQ' = retryQ
            /\ ev'.rejected = <<>> ]_vars
\* subscribeToCandles('BTC', '7m') returned after the connection had opened, with the
\* 1h key registered, and fetchCandles('BTC', '7m') has failed
C35_Witness ==
  /\ ev.op = "delayTimer"
  /\ Len(ev.completed) = 1
  /\ ev.completed[1].req = <<"candle", "BTC", "7m">>
  /\ MapKeys(subscriptions) = { <<"candle", "BTC", "1h">> }
  /\ rest.method = "fetchCandles"
  /\ rest.interval = "7m"
  /\ rest.phase = "rejected"


\* a subscribeToOrderBook(coin, ...) call is suspended: awaiting the connection, or in
\* the delay after it opened
SuspendedFor(coin) ==
  \/ \E s \in 1..Len(sockets) :
        /\ sockets[s].waiter.kind = "sub"
        /\ sockets[s].waiter.req = BookRequest(coin)
  \/ \E i \in 1..Len(delayQ) : delayQ[i].req = BookRequest(coin)

\* C36: a key that was subscribed and then unsubscribed, with no subscribe call after
\* that, is absent from the registry once both calls have completed. The component
\* unsubscribes a market's key when another market is selected, so the key of a market
\* that is not selected, with no subscribe call for it suspended, is absent.
C36_UnsubscribeWins ==
  \A market \in Markets :
     (market # store.selectedMarket /\ book.timer # market.coin /\ ~SuspendedFor(market.coin))
        => ~MapHas(subscriptions, KeyOf(BookRequest(market.coin)))


\* C37: the close of a socket that disconnect() closed schedules no reconnect attempt,
\* so that without a further subscribe* call no new WebSocket is opened.
C37_NoReconnectAfterDisconnect ==
  [][ (ev'.op = "onclose" /\ ev'.arg = "CLOSING") =>
        /\ ev'.scheduled = <<>>
        /\ reconnectTimers' = reconnectTimers
        /\ reconnectAttempts' = reconnectAttempts ]_vars

\* C38: the close event of a socket other than the one this.ws refers to leaves this.ws
\* referring to the same socket.
C38_StaleCloseKeepsCurrent ==
  [][ (ev'.op = "onclose" /\ ws # 0 /\ ws # ev'.sock) =>
        ws' = IF ws > ev'.sock THEN ws - 1 ELSE ws ]_vars


\* ---- the rows of the order book (OrderBook.tsx) ----
\* the settings of the aggregation select whose arithmetic is exact on whole prices
AggregationOptions == {0, 1, 10}
\* positions of the Max Levels slider (5..25, 10 when the component mounts)
MaxLevelsRange == {5, 10}
Depths == {0, 3, MaxDepth}
Level(price) == [px |-> NumberTexts[price], sz |-> "1", n |-> 1]
\* the venue lists each side best price first: bids downwards, asks upwards
VenueBids(depth, step) == [i \in 1..depth |-> Level(100 - (i - 1) * step)]
VenueAsks(depth, step) == [i \in 1..depth |-> Level(101 + (i - 1) * step)]
LevelBooks ==
  { [coin |-> "BTC", levels |-> <<VenueBids(b, step), VenueAsks(a, step)>>, time |-> 500] :
      b \in Depths, a \in Depths, step \in {1, 3} }

\* Math.floor(price / orderBookAggregation) * orderBookAggregation
roundedPrice(price, orderBookAggregation) ==
  (price \div orderBookAggregation) * orderBookAggregation

\* levels.forEach of aggregateLevels: the Map in insertion order
RECURSIVE aggregated(_, _)
aggregated(levels, orderBookAggregation) ==
  IF levels = <<>> THEN <<>>
  ELSE LET level == levels[Len(levels)]
           map == aggregated(SubSeq(levels, 1, Len(levels) - 1), orderBookAggregation)
           priceKey == toFixed(roundedPrice(parseFloat(level.px), orderBookAggregation), 8)
           size == parseFloat(level.sz)
       IN IF \E i \in 1..Len(map) : map[i].px = priceKey
            THEN [i \in 1..Len(map) |->
                    IF map[i].px = priceKey
                      THEN [map[i] EXCEPT !.sz = @ + size, !.n = @ + level.n]
                      ELSE map[i]]
            ELSE Append(map, [px |-> priceKey, sz |-> size, n |-> level.n])

\* [...].sort by parseFloat(px), descending or ascending; equal elements keep their order
RECURSIVE sortByPx(_, _)
sortByPx(levels, descending) ==
  IF Len(levels) <= 1 THEN levels
  ELSE LET last == levels[Len(levels)]
           init == sortByPx(SubSeq(levels, 1, Len(levels) - 1), descending)
           stays(level) == IF descending
                             THEN parseFloat(level.px) >= parseFloat(last.px)
                             ELSE parseFloat(level.px) <= parseFloat(last.px)
           k == Cardinality({ i \in 1..Len(init) : stays(init[i]) })
       IN SubSeq(init, 1, k) \o <<last>> \o SubSeq(init, k + 1, Len(init))

\* aggregateLevels(levels): either side is sorted by descending price
aggregateLevels(levels, orderBookAggregation) ==
  LET map == aggregated(levels, orderBookAggregation)
  IN sortByPx([i \in 1..Len(map) |-> [map[i] EXCEPT !.sz = toString(@)]], TRUE)

aggregatedOrderBook(orderBook, orderBookAggregation) ==
  IF orderBook = null \/ orderBookAggregation = 0 THEN orderBook
  ELSE [orderBook EXCEPT
          !.levels = << aggregateLevels(orderBook.levels[1], orderBookAggregation),
                        aggregateLevels(orderBook.levels[2], orderBookAggregation) >>]

\* aggregatedOrderBook?.levels[0]?.slice(0, maxLevels).sort(descending) || []
bids(orderBook, orderBookAggregation, maxLevels) ==
  LET view == aggregatedOrderBook(orderBook, orderBookAggregation)
  IN IF view = null THEN <<>> ELSE sortByPx(slice(view.levels[1], maxLevels), TRUE)
\* aggregatedOrderBook?.levels[1]?.slice(0, maxLevels).sort(ascending) || []
asks(orderBook, orderBookAggregation, maxLevels) ==
  LET view == aggregatedOrderBook(orderBook, orderBookAggregation)
  IN IF view = null THEN <<>> ELSE sortByPx(slice(view.levels[2], maxLevels), FALSE)

\* a state change of the component and the render that follows it
Render(op, s, maxLevels) ==
  /\ Set(s)
  /\ book' = [book EXCEPT !.maxLevels = maxLevels]
  /\ ev' = [op |-> op,
            arg |-> [bids |-> bids(s.orderBook, s.orderBookAggregation, maxLevels),
                     asks |-> asks(s.orderBook, s.orderBookAggregation, maxLevels)]]
  /\ UNCHANGED <<clientVars, rest, added>>

\* the component mounts and renders
Mount == ev.op = "init" /\ Render("render", State, book.maxLevels)
\* an order book arrives: setOrderBook
ShowOrderBook(orderBook) ==
  ev.op # "init" /\ Render("setOrderBook", setOrderBook(State, orderBook), book.maxLevels)
\* the aggregation select changes: setOrderBookAggregation(parseFloat(e.target.value))
ChooseAggregation(option) ==
  /\ ev.op # "init"
  /\ Render("setOrderBookAggregation",
            setOrderBookAggregation(State, parseFloat(toString(option))), book.maxLevels)
\* the Max Levels slider moves: setMaxLevels(parseInt(e.target.value))
SetMaxLevels(value) == ev.op # "init" /\ Render("setMaxLevels", State, value)

InitLevels ==
  /\ ws = 0
  /\ sockets = <<>>
  /\ subscriptions = <<>>
  /\ reconnectAttempts = 0
  /\ reconnectTimers = 0
  /\ delayQ = <<>>
  /\ retryQ = <<>>
  /\ maxReached = 0
  /\ calls = 0
  /\ ev = [op |-> "init", arg |-> NoArg]
  /\ rest = NoRest
  /\ trades = <<>>
  /\ added = 0
  /\ \E orderBook \in LevelBooks, option \in AggregationOptions :
        store = [InitialStore EXCEPT !.orderBook = orderBook,
                                     !.orderBookAggregation = option]
  /\ \E maxLevels \in MaxLevelsRange : book = [maxLevels |-> maxLevels] @@ NoBook

NextLevels ==
  \/ Mount
  \/ \E orderBook \in LevelBooks : ShowOrderBook(orderBook)
  \/ \E option \in AggregationOptions : ChooseAggregation(option)
  \/ \E value \in MaxLevelsRange : SetMaxLevels(value)

SpecLevels == InitLevels /\ [][NextLevels]_vars

\* the prices of one side of the book in the store, at the aggregation in the store
SidePrices(side) ==
  LET levels == store.orderBook.levels[side]
  IN { IF store.orderBookAggregation = 0 THEN parseFloat(levels[i].px)
       ELSE roundedPrice(parseFloat(levels[i].px), store.orderBookAggregation) :
         i \in 1..Len(levels) }
\* the k highest (lowest) of a set of prices
Best(prices, k, highest) ==
  { p \in prices :
      Cardinality({ q \in prices : IF highest THEN q > p ELSE q < p }) < k }
ShownPrices(rows) == [i \in 1..Len(rows) |-> parseFloat(rows[i].px)]
Rendered == ev.op \in {"render", "setOrderBook", "setOrderBookAggregation", "setMaxLevels"}

\* C40: the rows shown are the best levels of each side: the bids are the maxLevels
\* highest-priced bid levels in strictly descending price order, the asks the maxLevels
\* lowest-priced ask levels in strictly ascending price order.
C40_BestLevelsShown ==
  Rendered =>
    LET b == ShownPrices(ev.arg.bids)
        a == ShownPrices(ev.arg.asks)
    IN /\ { b[i] : i \in 1..Len(b) } = Best(SidePrices(1), book.maxLevels, TRUE)
       /\ \A i \in 1..Len(b), j \in 1..Len(b) : i < j => b[i] > b[j]
       /\ { a[i] : i \in 1..Len(a) } = Best(SidePrices(2), book.maxLevels, FALSE)
       /\ \A i \in 1..Len(a), j \in 1..Len(a) : i < j => a[i] < a[j]


\* ---- the client under fair scheduling ----
\* the call that starts the session: one order book subscription
LiveCall == <<<<"l2Book", "BTC", NoInterval>>, "cb1">>
\* the pending transition of socket s ends: a connection attempt opens or fails and
\* closes, a socket on which close() was called closes
Settle(s) ==
  /\ s \in 1..Len(sockets)
  /\ sockets[s].readyState \in {"CONNECTING", "CLOSING"}
  /\ (OnOpen(s) \/ OnClose(s))

\* a session that subscribes once and may call disconnect() at any time
NextLive ==
  \/ calls = 0 /\ Subscribe(LiveCall[1], LiveCall[2])
  \/ Disconnect
  \/ \E s \in 1..MaxPending : OnOpen(s)
  \/ \E s \in 1..MaxPending : OnClose(s)
  \/ ReconnectTimer
  \/ DelayTimer
  \/ RetryTimer

\* timers that are set fire, and no socket stays CONNECTING or CLOSING forever
Fairness ==
  /\ WF_vars(ReconnectTimer)
  /\ WF_vars(DelayTimer)
  /\ WF_vars(RetryTimer)
  /\ WF_vars(\E s \in 1..MaxPending : Settle(s))

SpecLive == Init /\ [][NextLive]_vars /\ Fairness

\* an established connection has just closed
OpenClosed == ev.op = "onclose" /\ ev.arg = "OPEN"
\* a connection is established and the attempt counter is 0
OpenAgain ==
  /\ reconnectAttempts = 0
  /\ \E s \in 1..Len(sockets) : sockets[s].readyState = "OPEN"
\* maxReconnectAttempts attempts were made and the terminal failure was logged
GaveUp == reconnectAttempts >= maxReconnectAttempts /\ maxReached > 0

\* C39: under fair scheduling of timers and socket events, after an established
\* connection closes the client eventually is connected again with the attempt counter
\* at 0, or has made maxReconnectAttempts attempts and logged the terminal failure.
C39_ReconnectSettles == OpenClosed ~> (OpenAgain \/ GaveUp)
C39_Witness == OpenClosed /\ reconnectTimers > 0 /\ ~OpenAgain /\ ~GaveUp
====
